---- MODULE Spec2Model ----
(***************************************************************************)
(* Model of indexer.py: a directory walker that writes, per visited        *)
(* directory, an index page listing the directory's entries.               *)
(*                                                                         *)
(* Strings are sequences of code points, so that lower(), glob matching,   *)
(* the '^\.' test and Python's str ordering are computed, not assumed.     *)
(* A pathlib path is a record [abs, parts]; a location (Loc) is the        *)
(* sequence of names from the file system root to a node.                  *)
(***************************************************************************)
EXTENDS Integers, Sequences, FiniteSets, TLC

VARIABLES opts, fs, now, pc, err, stack, runs, before, created, prevCreated,
          maxLevel, visited

vars == <<opts, fs, now, pc, err, stack, runs, before, created, prevCreated,
          maxLevel, visited>>

----------------------------------------------------------------------------
(* Bounds *)

\* number of consecutive runs of the tool on the same tree
MaxRuns == 3
\* the latest clock tick at which a file is written
MaxClock == 2

(* two clock ticks make one second: last_modified drops the sub-second part *)
TicksPerSecond == 2

----------------------------------------------------------------------------
(* Code points and names *)

Dot == 46
Slash == 47

n_t == <<116>>          \* "t"   the start directory, /t
n_B == <<66>>           \* "B"
n_a == <<97>>           \* "a"
n_c == <<99>>           \* "c"
n_m == <<109>>          \* "m"
n_h == <<46, 104>>      \* ".h"
n_ix == <<105, 120>>    \* "ix"
n_Ix == <<73, 120>>     \* "Ix"

\* str.lower() on ASCII
Lower(s) == [i \in DOMAIN s |-> IF s[i] \in 65..90 THEN s[i] + 32 ELSE s[i]]

\* Python's str '<': code-point lexicographic, a proper prefix is smaller
StrLess(a, b) ==
    \E i \in 1..Len(b) :
        /\ i - 1 <= Len(a)
        /\ \A j \in 1..(i - 1) : a[j] = b[j]
        /\ \/ i = Len(a) + 1
           \/ (i <= Len(a) /\ a[i] < b[i])

\* os.path.join(a, b) for a relative b and a non-empty a without trailing '/'
PathJoin(a, b) == a \o <<Slash>> \o b

----------------------------------------------------------------------------
(* Glob patterns: a sequence of tokens *)

Star == [t |-> "star", c |-> 0]
Lit(c) == [t |-> "lit", c |-> c]
NotChar(c) == [t |-> "not", c |-> c]

\* '[!.]*', the pattern used when no --filter is given
DefaultPattern == <<NotChar(Dot), Star>>
\* --filter "*"
StarPattern == <<Star>>
\* no --filter (None, or the empty string, both falsy)
NoFilter == <<>>

RECURSIVE GlobMatch(_, _)
GlobMatch(p, s) ==
    IF p = <<>> THEN s = <<>>
    ELSE LET h == Head(p) IN
         CASE h.t = "star" ->
                \E k \in 0..Len(s) : GlobMatch(Tail(p), SubSeq(s, k + 1, Len(s)))
           [] h.t = "not" ->
                s # <<>> /\ s[1] # h.c /\ GlobMatch(Tail(p), Tail(s))
           [] OTHER ->
                s # <<>> /\ s[1] = h.c /\ GlobMatch(Tail(p), Tail(s))

----------------------------------------------------------------------------
(* File system *)

NoHtml == [entries |-> <<>>, path_top_dir |-> <<>>, index_name |-> <<>>]

Node(kind, target, w) ==
    [kind |-> kind, target |-> target, w |-> w, mtime |-> 0, size |-> 1,
     html |-> NoHtml]

Root == <<n_t>>
Cwd == Root

Exists(f, l) == l \in DOMAIN f

\* follow symbolic links, component by component; <<>> when nothing is there
RECURSIVE ResolveFrom(_, _, _)
ResolveFrom(f, done, rest) ==
    IF ~Exists(f, done) THEN <<>>
    ELSE IF f[done].kind = "link" THEN ResolveFrom(f, f[done].target, rest)
    ELSE IF rest = <<>> THEN done
    ELSE IF f[done].kind # "dir" THEN <<>>
    ELSE ResolveFrom(f, Append(done, Head(rest)), Tail(rest))

AbsParts(p) == IF p.abs THEN p.parts ELSE Cwd \o p.parts

\* the location a path leads to after following every link (stat)
Resolve(f, p) ==
    LET a == AbsParts(p) IN ResolveFrom(f, <<Head(a)>>, Tail(a))

\* the location of the path's own last component (lstat)
LResolve(f, p) ==
    LET a == AbsParts(p) IN
    IF Len(a) = 1 THEN a
    ELSE LET par == ResolveFrom(f, <<Head(a)>>, SubSeq(a, 2, Len(a) - 1)) IN
         IF par = <<>> THEN <<>> ELSE Append(par, a[Len(a)])

is_symlink(f, p) ==
    LET l == LResolve(f, p) IN Exists(f, l) /\ f[l].kind = "link"

is_dir(f, p) ==
    LET l == Resolve(f, p) IN l # <<>> /\ f[l].kind = "dir"

is_file(f, p) ==
    LET l == Resolve(f, p) IN l # <<>> /\ f[l].kind = "file"

\* os.access(str(entry), os.W_OK)
access_w(f, p) ==
    LET l == Resolve(f, p) IN l # <<>> /\ f[l].w

PathName(p) == IF p.parts = <<>> THEN <<>> ELSE p.parts[Len(p.parts)]

Child(p, n) == [abs |-> p.abs, parts |-> Append(p.parts, n)]

RECURSIVE JoinParts(_)
JoinParts(ps) ==
    IF Len(ps) = 1 THEN ps[1] ELSE PathJoin(ps[1], JoinParts(Tail(ps)))

\* str(path)
PathStr(p) ==
    IF p.parts = <<>> THEN (IF p.abs THEN <<Slash>> ELSE <<Dot>>)
    ELSE IF p.abs THEN <<Slash>> \o JoinParts(p.parts)
    ELSE JoinParts(p.parts)

\* names of the children of the directory a path leads to
ChildNames(f, p) ==
    LET d == Resolve(f, p) IN
    IF d = <<>> THEN {}
    ELSE {l[Len(l)] : l \in {x \in DOMAIN f : Len(x) = Len(d) + 1
                                              /\ SubSeq(x, 1, Len(d)) = d}}

----------------------------------------------------------------------------
(* pathlib.Path(str): split on '/', drop empty and '.' components *)

RECURSIVE SplitSlash(_, _)
SplitSlash(s, cur) ==
    IF s = <<>> THEN <<cur>>
    ELSE IF Head(s) = Slash THEN <<cur>> \o SplitSlash(Tail(s), <<>>)
    ELSE SplitSlash(Tail(s), Append(cur, Head(s)))

PathOf(s) ==
    [abs |-> s # <<>> /\ s[1] = Slash,
     parts |-> SelectSeq(SplitSlash(s, <<>>), LAMBDA c : c # <<>> /\ c # <<Dot>>)]

----------------------------------------------------------------------------
(* entries2jinja *)

\* the entry is the index file itself: compared case-insensitively
SelfEntryOneLower(o, name) == Lower(name) = o.output_file
SelfEntry(o, name) == Lower(name) = Lower(o.output_file)

\* the write-permission gate on entries that are not symbolic links
NotWritableSkip(f, e) == (~is_symlink(f, e)) /\ ~access_w(f, e)

\* the if/elif chain that names the entry type
EntryType(f, e) ==
    IF is_dir(f, e) /\ ~is_symlink(f, e) THEN "folder"
    ELSE IF is_dir(f, e) /\ is_symlink(f, e) THEN "folder-shortcut"
    ELSE IF is_file(f, e) /\ is_symlink(f, e) THEN "file-shortcut"
    ELSE "file"

\* datetime.fromtimestamp(st_mtime).replace(microsecond=0)
LastModified(mtime) == mtime \div TicksPerSecond

\* One pass of the generator over entries[i..]. In the modelled file system
\* stat() does not fail on an entry that is_file() or is_dir() accepted, so
\* the except clause of the try block is never entered.
\* entry_path is a local of the generator: it keeps the value of an earlier iteration, and it is unbound
\* until some iteration assigns it. Reading it unbound raises
\* UnboundLocalError outside the try block, which ends the generator.
RECURSIVE E2JLoop(_, _, _, _, _, _, _)
E2JLoop(o, f, entries, i, bound, entry_path, out) ==
    IF i > Len(entries) THEN [ok |-> TRUE, out |-> out]
    ELSE
    LET entry == entries[i]
        name == PathName(entry)
        st == Resolve(f, entry)
        isf == is_file(f, entry)
        isd == is_dir(f, entry)
        bound1 == bound \/ isf \/ isd
        path1 == IF isd THEN PathJoin(name, Lower(o.output_file))
                 ELSE IF isf THEN name
                 ELSE entry_path
        rec == [path |-> path1,
                entrytype |-> EntryType(f, entry),
                name |-> name,
                size_bytes |-> IF isf THEN f[st].size ELSE -1,
                last_modified |-> IF isd \/ isf THEN LastModified(f[st].mtime)
                                  ELSE -1]
    IN
    IF SelfEntry(o, name) THEN
        E2JLoop(o, f, entries, i + 1, bound, entry_path, out)
    ELSE IF NotWritableSkip(f, entry) THEN
        E2JLoop(o, f, entries, i + 1, bound, entry_path, out)
    ELSE IF ~bound1 THEN [ok |-> FALSE, out |-> out]
    ELSE E2JLoop(o, f, entries, i + 1, bound1, path1, Append(out, rec))

entries2jinja(o, f, entries) == E2JLoop(o, f, entries, 1, FALSE, <<>>, <<>>)

\* render: the template receives the entries, the directory and the
\* lower-cased output file name; the page is a function of these three
render(o, f, sorted_entries, top_dir) ==
    LET r == entries2jinja(o, f, sorted_entries) IN
    [ok |-> r.ok,
     html |-> [entries |-> r.out,
               path_top_dir |-> PathStr(top_dir),
               index_name |-> Lower(o.output_file)]]

\* length of the rendered page: a header plus one row per entry
HtmlLen(html) == 1 + Len(html.entries)

----------------------------------------------------------------------------
(* process_dir *)

\* hidden(x): not opts.all and re.match(r'^\.', str(x))
hidden(o, x) == (~o.all) /\ PathStr(x)[1] = Dot

\* glob_patt = opts.filter or '[!.]*'
GlobPatt(o) == IF o.filter # NoFilter THEN o.filter ELSE DefaultPattern

\* top_dir.glob(glob_patt)
Glob(f, top_dir, patt) ==
    {Child(top_dir, n) : n \in {x \in ChildNames(f, top_dir) : GlobMatch(patt, x)}}

\* key=lambda p: (p.is_file(), p.name); False sorts before True
KeyLess(f, p, q) ==
    \/ (~is_file(f, p)) /\ is_file(f, q)
    \/ is_file(f, p) = is_file(f, q) /\ StrLess(PathName(p), PathName(q))

RECURSIVE SortedSeq(_, _)
SortedSeq(f, S) ==
    IF S = {} THEN <<>>
    ELSE LET m == CHOOSE x \in S : \A y \in S \ {x} : KeyLess(f, x, y)
         IN <<m>> \o SortedSeq(f, S \ {m})

SortedEntries(o, f, top_dir) ==
    SortedSeq(f, {x \in Glob(f, top_dir, GlobPatt(o)) : ~hidden(o, x)})

\* index_path = pathlib.Path(top_dir, opts.output_file)
IndexPath(o, top_dir) == Child(top_dir, o.output_file)

\* open(index_path, 'w') succeeds: an existing writable regular file, or a
\* new file in a writable directory
CanOpenW(f, ip) ==
    LET l == Resolve(f, ip)
        ll == LResolve(f, ip)
    IN IF l # <<>> THEN f[l].kind = "file" /\ f[l].w
       ELSE /\ ll # <<>>
            /\ ~Exists(f, ll)
            /\ f[SubSeq(ll, 1, Len(ll) - 1)].w

\* the file system after the page is written at time t; creating the file
\* changes the directory's modification time, rewriting it does not
WriteFileTouchDir(f, ip, html, t) ==
    LET ll == LResolve(f, ip)
        d == SubSeq(ll, 1, Len(ll) - 1)
    IN [x \in DOMAIN f \cup {ll} |->
          IF x = ll THEN [kind |-> "file", target |-> <<>>, w |-> TRUE,
                          mtime |-> t, size |-> HtmlLen(html), html |-> html]
          ELSE IF x = d THEN [f[x] EXCEPT !.mtime = t]
          ELSE f[x]]
WriteFile(f, ip, html, t) ==
    LET l == Resolve(f, ip)
        ll == LResolve(f, ip)
        d == SubSeq(ll, 1, Len(ll) - 1)
    IN IF l # <<>>
       THEN [f EXCEPT ![l] = [@ EXCEPT !.html = html, !.mtime = t,
                                       !.size = HtmlLen(html)]]
       ELSE [x \in DOMAIN f \cup {ll} |->
               IF x = ll THEN [kind |-> "file", target |-> <<>>, w |-> TRUE,
                               mtime |-> t, size |-> HtmlLen(html),
                               html |-> html]
               ELSE IF x = d THEN [f[x] EXCEPT !.mtime = t]
               ELSE f[x]]

\* for entry in sorted_entries: if entry.is_dir(): process_dir(.., level+1)
SubDirsNoLinks(f, sorted_entries, level) ==
    LET ds == SelectSeq(sorted_entries,
                        LAMBDA e : is_dir(f, e) /\ ~is_symlink(f, e))
    IN [i \in DOMAIN ds |-> [dir |-> ds[i], level |-> level + 1]]
SubDirs(f, sorted_entries, level) ==
    LET ds == SelectSeq(sorted_entries, LAMBDA e : is_dir(f, e))
    IN [i \in DOMAIN ds |-> [dir |-> ds[i], level |-> level + 1]]

Max(a, b) == IF a >= b THEN a ELSE b

Frame == Head(stack)

Invoked ==
    /\ pc = "walk"
    /\ stack # <<>>
    /\ maxLevel' = Max(maxLevel, Frame.level)

Return(rest) ==
    /\ stack' = rest
    /\ pc' = IF rest = <<>> THEN "exit" ELSE "walk"

Raise(e) ==
    /\ stack' = <<>>
    /\ pc' = "exit"
    /\ err' = e

\* if hidden(top_dir): return
ProcessDirHidden ==
    /\ Invoked
    /\ hidden(opts, Frame.dir)
    /\ Return(Tail(stack))
    /\ UNCHANGED <<opts, fs, now, err, runs, before, created, prevCreated,
                   visited>>

\* the generator raises UnboundLocalError inside render: nothing is written
ProcessDirRenderError ==
    /\ Invoked
    /\ ~hidden(opts, Frame.dir)
    /\ ~render(opts, fs, SortedEntries(opts, fs, Frame.dir), Frame.dir).ok
    /\ Raise("UnboundLocalError")
    /\ UNCHANGED <<opts, fs, now, runs, before, created, prevCreated, visited>>

\* open(index_path, 'w') raises: the except clause re-raises
ProcessDirWriteError ==
    /\ Invoked
    /\ ~hidden(opts, Frame.dir)
    /\ ~CanOpenW(fs, IndexPath(opts, Frame.dir))
    /\ render(opts, fs, SortedEntries(opts, fs, Frame.dir), Frame.dir).ok
    /\ Raise("PermissionError")
    /\ UNCHANGED <<opts, fs, now, runs, before, created, prevCreated, visited>>

\* the page is written, then the sub-directories are walked depth first.
\* The clock is read only here, by the write that stamps the file: the time
\* that has passed since the last write is chosen at the write.
ProcessDirWrite ==
    /\ Invoked
    /\ ~hidden(opts, Frame.dir)
    /\ LET se == SortedEntries(opts, fs, Frame.dir)
           r == render(opts, fs, se, Frame.dir)
           ip == IndexPath(opts, Frame.dir)
       IN /\ CanOpenW(fs, ip)
          /\ r.ok
          /\ \E t \in now..MaxClock :
                /\ now' = t
                /\ fs' = WriteFile(fs, ip, r.html, t)
          /\ created' = (created \/ Resolve(fs, ip) = <<>>)
          /\ visited' = Append(visited, Frame.dir)
          /\ Return((IF opts.recursive THEN SubDirs(fs, se, Frame.level)
                     ELSE <<>>) \o Tail(stack))
    /\ UNCHANGED <<opts, err, runs, before, prevCreated>>

\* the page files there are, with their content
IndexFiles(f) ==
    LET L == {l \in DOMAIN f : f[l].html # NoHtml} IN [l \in L |-> f[l].html]

\* main: one run of the tool, process_dir(config) at level 0
Main ==
    /\ pc \in {"init", "exit"}
    /\ runs < MaxRuns
    /\ runs' = runs + 1
    /\ pc' = "walk"
    /\ err' = "none"
    /\ stack' = <<[dir |-> PathOf(opts.top_dir), level |-> 0]>>
    /\ before' = IndexFiles(fs)
    /\ prevCreated' = created
    /\ created' = FALSE
    /\ maxLevel' = 0
    /\ visited' = <<>>
    /\ UNCHANGED <<opts, fs, now>>

----------------------------------------------------------------------------
(* Initial states: the command line and the tree under /t. The tree was   *)
(* made at tick 0; the first run starts at tick 1 or later.               *)

s_abs == <<Slash>> \o n_t      \* "/t"
s_dot == <<Dot>>               \* "."

Options ==
    [top_dir : {s_abs, s_dot},
     all : BOOLEAN,
     recursive : BOOLEAN,
     filter : {NoFilter, StarPattern},
     output_file : {n_ix, n_Ix}]

L_B == <<n_t, n_B>>
L_a == <<n_t, n_a>>
L_m == <<n_t, n_m>>
L_h == <<n_t, n_h>>
L_Bc == <<n_t, n_B, n_c>>
L_Bix == <<n_t, n_B, n_ix>>

Absent == Node("absent", <<>>, FALSE)

Choices_B == {Absent, Node("dir", <<>>, TRUE), Node("dir", <<>>, FALSE)}
Choices_a == {Node("file", <<>>, TRUE), Node("file", <<>>, FALSE),
              Node("other", <<>>, TRUE)}
Choices_m == {Absent, Node("link", L_a, TRUE), Node("link", L_B, TRUE),
              Node("link", L_Bix, TRUE)}
Choices_h == {Absent, Node("dir", <<>>, TRUE)}
Choices_Bc == {Absent, Node("dir", <<>>, TRUE)}

Tree(B, a, m, h, Bc) ==
    LET all == (Root :> Node("dir", <<>>, TRUE)) @@ (L_B :> B) @@ (L_a :> a)
               @@ (L_m :> m) @@ (L_h :> h) @@ (L_Bc :> Bc)
        D == {l \in DOMAIN all : all[l].kind # "absent"}
    IN [l \in D |-> all[l]]

Init ==
    /\ opts \in {o \in Options : o.top_dir = s_dot => ~o.all}
    /\ \E B \in Choices_B, a \in Choices_a, m \in Choices_m, h \in Choices_h :
         \E Bc \in (IF B.kind = "dir" /\ B.w THEN Choices_Bc ELSE {Absent}) :
            fs = Tree(B, a, m, h, Bc)
    /\ now = 1
    /\ pc = "init"
    /\ err = "none"
    /\ stack = <<>>
    /\ runs = 0
    /\ before = <<>>
    /\ created = FALSE
    /\ prevCreated = FALSE
    /\ maxLevel = 0
    /\ visited = <<>>

ProcessDir ==
    \/ ProcessDirHidden
    \/ ProcessDirRenderError
    \/ ProcessDirWriteError
    \/ ProcessDirWrite

Next == Main \/ ProcessDir

Spec == Init /\ [][Next]_vars

----------------------------------------------------------------------------
(* Vocabulary of the properties *)

\* the locations of the written pages
Pages == {l \in DOMAIN fs : fs[l].html # NoHtml}

\* the directory a page lies in, and the rows of the page
PageDir(l) == SubSeq(l, 1, Len(l) - 1)
Rows(l) == fs[l].html.entries

\* the file system entry a row of the page at l stands for
EntryOf(l, row) == [abs |-> TRUE, parts |-> Append(PageDir(l), row.name)]

HiddenName(n) == n # <<>> /\ n[1] = Dot

DirKinds == {"folder", "folder-shortcut"}
FileKinds == {"file", "file-shortcut"}

Range(q) == {q[i] : i \in DOMAIN q}

\* the directory nodes of the tree and the depth of the tree under /t
DirNodes == {l \in DOMAIN fs : fs[l].kind = "dir"}
SetMax(S) == CHOOSE x \in S : \A y \in S : y <= x
TreeDepth == SetMax({Len(l) - Len(Root) : l \in DirNodes})

\* the paths a recursive walk is to reach: the start directory unless it is
\* skipped, and below a reached path every child that passes the enumeration
\* (glob pattern and hidden filter) and is a directory
RECURSIVE ReachFrom(_)
ReachFrom(p) ==
    {p} \cup UNION {ReachFrom(c) :
                      c \in {x \in Glob(fs, p, GlobPatt(opts)) :
                                (~hidden(opts, x)) /\ is_dir(fs, x)}}

Top == PathOf(opts.top_dir)
Reach == IF hidden(opts, Top) THEN {} ELSE ReachFrom(Top)
LevelOf(p) == Len(p.parts) - Len(Top.parts)

\* some symbolic link leads to a written page
LinkToPage ==
    \E l \in DOMAIN fs :
        /\ fs[l].kind = "link"
        /\ LET r == ResolveFrom(fs, <<Head(l)>>, Tail(l)) IN
           r # <<>> /\ fs[r].html # NoHtml

----------------------------------------------------------------------------
(* Properties *)

\* C1: an entry that is not a symbolic link and is not writable is absent
\* from its parent's page, and its presence does not abort the run: no run
\* ends with the permission error of a write.
C1_SkipUnwritableNeverAborts ==
    /\ \A l \in Pages : \A i \in DOMAIN Rows(l) :
          LET e == EntryOf(l, Rows(l)[i]) IN
          is_symlink(fs, e) \/ access_w(fs, e)
    /\ err # "PermissionError"

\* C2: without --all, for every filter and start directory, no page has a
\* row whose name starts with '.', and process_dir skips a directory exactly
\* when the directory's own name starts with '.'.
C2_HiddenExcluded ==
    (~opts.all) =>
        /\ \A l \in Pages : \A i \in DOMAIN Rows(l) :
              ~HiddenName(Rows(l)[i].name)
        /\ (pc = "walk" /\ stack # <<>>) =>
              (hidden(opts, Frame.dir) <=> HiddenName(PathName(Frame.dir)))

\* C3: with --all and no filter, every child whose name starts with '.'
\* (other than the index file and the entries skipped as unwritable) has a
\* row in its directory's page, and with recursion every such hidden
\* sub-directory has its own page when the run ends.
C3_ShowHiddenLists ==
    (opts.all /\ opts.filter = NoFilter) =>
        \A l \in Pages : \A n \in ChildNames(fs, [abs |-> TRUE, parts |-> PageDir(l)]) :
            LET e == [abs |-> TRUE, parts |-> Append(PageDir(l), n)] IN
            (HiddenName(n) /\ Lower(n) # Lower(opts.output_file)
               /\ (is_symlink(fs, e) \/ access_w(fs, e)))
            => /\ \E i \in DOMAIN Rows(l) : Rows(l)[i].name = n
               /\ (opts.recursive /\ pc = "exit" /\ is_dir(fs, e))
                     => Resolve(fs, IndexPath(opts, e)) \in Pages

\* C4: two consecutive runs leave the same pages: when the second or a later
\* run ends, every page equals the page the run before left.
C4_Idempotent ==
    (pc = "exit" /\ runs >= 2) => IndexFiles(fs) = before

\* C4 as amended: two consecutive runs leave the same pages provided the
\* first of the two created no page (it only rewrote pages that were there)
\* and no symbolic link leads to a page.
C4_IdempotentOnceIndexed ==
    (pc = "exit" /\ runs >= 2 /\ ~prevCreated /\ ~LinkToPage)
        => IndexFiles(fs) = before

C4_Witness ==
    /\ pc = "exit" /\ runs >= 2 /\ ~prevCreated /\ ~LinkToPage
    /\ Len(visited) >= 2
    /\ now >= 2
    /\ \E l \in Pages : Rows(l) # <<>> /\ fs[l].mtime # 1

C6_DirsFirstThenByName ==
    \A l \in Pages : \A i, j \in DOMAIN Rows(l) :
        i < j =>
            LET a == Rows(l)[i]
                b == Rows(l)[j]
            IN /\ ~(a.entrytype \in FileKinds /\ b.entrytype \in DirKinds)
               /\ ((a.entrytype \in DirKinds) = (b.entrytype \in DirKinds))
                     => StrLess(a.name, b.name)

\* C7: the link of every folder row is the row's name joined with the
\* configured output file name, the place where process_dir writes the page
\* of that sub-directory.
C7_DirLinkIsWrittenPage ==
    \A l \in Pages : \A i \in DOMAIN Rows(l) :
        Rows(l)[i].entrytype \in DirKinds =>
            Rows(l)[i].path =
                PathStr(IndexPath(opts, [abs |-> FALSE,
                                         parts |-> <<Rows(l)[i].name>>]))

\* C8: no page has a row whose name equals the output file name when letter
\* case is ignored, after any number of runs.
C8_SelfExcluded ==
    \A l \in Pages : \A i \in DOMAIN Rows(l) :
        Lower(Rows(l)[i].name) # Lower(opts.output_file)

C8_Witness ==
    /\ pc = "exit" /\ runs >= 2 /\ err = "none"
    /\ opts.output_file = n_Ix
    /\ \E l \in Pages :
          /\ l \in DOMAIN before
          /\ Rows(l) # <<>>
          /\ l[Len(l)] # Lower(opts.output_file)

\* C9: the entry type of every row is determined by (is-directory,
\* is-symlink) of its entry: file, file-shortcut, folder, folder-shortcut.
C9_KindFromDirAndLink ==
    \A l \in Pages : \A i \in DOMAIN Rows(l) :
        LET e == EntryOf(l, Rows(l)[i])
            d == is_dir(fs, e)
            k == is_symlink(fs, e)
        IN Rows(l)[i].entrytype =
              (IF d THEN (IF k THEN "folder-shortcut" ELSE "folder")
               ELSE (IF k THEN "file-shortcut" ELSE "file"))

\* C10: the link of every row is computed from its own entry, the bare name
\* unless it is a directory and the name joined with the output file name
\* if it is, and emitting a row never fails for lack of a value.
C10_PathFromOwnEntry ==
    /\ \A l \in Pages : \A i \in DOMAIN Rows(l) :
          LET r == Rows(l)[i] IN
          IF is_dir(fs, EntryOf(l, r))
          THEN r.path \in {PathJoin(r.name, opts.output_file),
                           PathJoin(r.name, Lower(opts.output_file))}
          ELSE r.path = r.name
    /\ err # "UnboundLocalError"

====
